---- MODULE Spec2Model ----
(***************************************************************************)
(* solo5-elftool (src/elftool/elftool.c): the manifest generator "gen",    *)
(* the manifest inspector "dump" and the ABI reporter "abi", as one state  *)
(* machine.  One run of the tool is one behaviour: Init fixes the command  *)
(* and its inputs, the actions are the steps of the command's function,    *)
(* and pc = "exit" is the state at process exit.                           *)
(***************************************************************************)
EXTENDS Integers, Sequences, FiniteSets, TLC

(***************************************************************************)
(* Format constants of mft_abi.h and elf_abi.h.  The two limits are scaled *)
(* down (the header sets 64 entries and 67 name characters).               *)
(***************************************************************************)
MFT_VERSION == 1
MFT_MAX_ENTRIES == 3
MFT_NAME_MAX == 2
MFT_DEV_BLOCK_BASIC == 1
MFT_DEV_NET_BASIC == 2
MFT_RESERVED_FIRST == 2 ^ 30

HVT_ABI_TARGET == 1
SPT_ABI_TARGET == 2
VIRTIO_ABI_TARGET == 3
MUEN_ABI_TARGET == 4
GENODE_ABI_TARGET == 5

EXIT_SUCCESS == 0
EXIT_FAILURE == 1

\* Bound of the inputs: the most key/value pairs of the root object.
MaxTop == 3

(***************************************************************************)
(* json.h: a parsed value.  n is the key the value is stored under, d its  *)
(* type tag, u.i / u.s / u.v its integer, string or children.  A string is *)
(* a sequence of symbols: a device name is spelled character by character, *)
(* a device type identifier is one symbol.  A pointer to a child is its    *)
(* position in the parent's u.v, 0 for NULL.                               *)
(***************************************************************************)
JV(n, d, i, s, v) == [n |-> n, d |-> d, i |-> i, s |-> s, v |-> v]
JInt(n, i) == JV(n, "jint", i, <<>>, <<>>)
JStr(n, s) == JV(n, "jstring", 0, s, <<>>)
JArr(n, v) == JV(n, "jarray", 0, <<>>, v)
JObj(n, v) == JV(n, "jobject", 0, <<>>, v)

jtypestr(t) ==
    CASE t = "jnull" -> "NULL"
      [] t = "jtrue" -> "BOOLEAN"
      [] t = "jfalse" -> "BOOLEAN"
      [] t = "jstring" -> "STRING"
      [] t = "jarray" -> "ARRAY"
      [] t = "jobject" -> "OBJECT"
      [] t = "jint" -> "INTEGER"
      [] t = "jreal" -> "REAL"
      [] OTHER -> "UNKNOWN"

\* jexpect's diagnostic: the format and its three arguments.
ExpectDiag(t, v, loc) == <<"%s: expected %s, got %s", loc, jtypestr(t), jtypestr(v.d)>>

\* isalnum over the characters the inputs are spelled with.
AlnumChars == {"a", "b", "0"}
isalnum(c) == c \in AlnumChars

RepeatChar(c, n) == [k \in 1..n |-> c]

(***************************************************************************)
(* Inputs of gen: the parsed documents.                                    *)
(***************************************************************************)
NameA == <<"a">>
NameMax == RepeatChar("b", MFT_NAME_MAX)
NameLong == RepeatChar("a", MFT_NAME_MAX + 1)
NameDash == <<"-">>
NameLongDash == RepeatChar("-", MFT_NAME_MAX + 1)
T_NET == <<"NET_BASIC">>
T_BLOCK == <<"BLOCK_BASIC">>

Dev(fields) == JObj("", fields)
DevA == Dev(<<JStr("name", NameA), JStr("type", T_NET)>>)
DevB == Dev(<<JStr("type", T_BLOCK), JStr("name", NameMax)>>)
NonObj == JStr("", <<"x">>)

\* The elements a .devices array is built from: the two valid devices, a
\* non-object, and device objects with one or two defects.
Elements ==
    { NonObj, DevA, DevB,
      Dev(<<JStr("name", <<>>), JStr("type", T_NET)>>),
      Dev(<<JStr("name", NameLong), JStr("type", T_NET)>>),
      Dev(<<JStr("name", NameDash), JStr("type", T_NET)>>),
      Dev(<<JStr("name", NameLongDash), JStr("type", T_NET)>>),
      Dev(<<JStr("name", NameA), JStr("type", T_NET), JInt("mtu", 0)>>),
      Dev(<<JInt("mtu", 0), JStr("type", T_NET)>>),
      Dev(<<JStr("type", T_NET)>>),
      Dev(<<JStr("name", NameA)>>),
      Dev(<<JInt("name", 0), JStr("type", T_NET)>>),
      Dev(<<JStr("name", NameA), JInt("type", 0)>>),
      Dev(<<JStr("name", <<>>), JStr("name", <<"0">>), JStr("type", T_BLOCK)>>) }

\* Documents that vary the devices: { "version": 1, "devices": [...] } with
\* up to MFT_MAX_ENTRIES elements (1 + MFT_MAX_ENTRIES entries is one too many).
IsDeviceDoc(r) ==
    \E n \in 0..MFT_MAX_ENTRIES : \E a \in [1..n -> Elements] :
        r = JObj("", <<JInt("version", MFT_VERSION), JArr("devices", a)>>)

\* Documents that vary the root object: any sequence of up to MaxTop keys, a
\* key may repeat.
TopArrays ==
    { [k \in 1..n |-> DevA] : n \in 0..MFT_MAX_ENTRIES }
        \cup { <<DevB>>, <<DevA, NonObj>>, <<Dev(<<JStr("type", T_NET)>>)>> }
TopFields ==
    { JInt("version", MFT_VERSION), JInt("version", MFT_VERSION + 1),
      JStr("version", <<"1">>), JInt("mtu", 0), JStr("devices", <<>>) }
        \cup { JArr("devices", a) : a \in TopArrays }
IsRootDoc(r) ==
    \E n \in 0..MaxTop : \E f \in [1..n -> TopFields] : r = JObj("", f)

\* What jparse can return: NoDocument for a parse error, a root that is no
\* object, or one of the documents above.
NoDocument == JV("", "jnull", 0, <<>>, <<>>)
IsDocument(r) ==
    \/ r = NoDocument
    \/ r = JArr("", <<>>)
    \/ IsDeviceDoc(r)
    \/ IsRootDoc(r)

(***************************************************************************)
(* State.                                                                  *)
(***************************************************************************)
VARIABLES
    run,        \* the command running: "gen", "dump" or "abi"
    pc,         \* the place in the command's function; "exit" at process exit
    status,     \* the exit status, -1 while running
    diag,       \* the message err/errx/warnx wrote to stderr, <<>> for none
    held,       \* the resources acquired and not yet released
    src_ok,     \* gen: SOURCE can be opened
    out_ok,     \* gen: OUTPUT can be opened for writing
    root,       \* gen: what jparse returns, NoDocument for a parse error
    jversion,   \* gen: position of the version value in root->u.v, 0 for NULL
    jdevices,   \* gen: position of the devices value in root->u.v, 0 for NULL
    entries,    \* gen: the entry counter
    i,          \* the index of the running loop
    obuf,       \* gen: lines in ofp's stdio buffer
    ofile,      \* gen: lines in the OUTPUT file
    bin_ok,     \* dump, abi: BINARY can be opened
    mft,        \* dump: the manifest note of BINARY
    abi1,       \* abi: the ABI note of BINARY
    stdout,     \* lines printed to stdout
    built       \* BINARY was built from the OUTPUT of the gen run before

vars == <<run, pc, status, diag, held, src_ok, out_ok, root, jversion, jdevices,
          entries, i, obuf, ofile, bin_ok, mft, abi1, stdout, built>>
genLocals == <<jversion, jdevices, entries, i>>
inputs == <<run, src_ok, out_ok, root, bin_ok, mft, abi1, built>>

\* The lines fprintf writes from out_header, out_entry and out_footer.  The
\* header holds both %d: n1 in "#define MFT_ENTRIES", n2 in ".entries =".
OutHeader(n1, n2) == [k |-> "out_header", n1 |-> n1, n2 |-> n2, name |-> <<>>, type |-> <<>>]
OutEntry(name, type) == [k |-> "out_entry", n1 |-> 0, n2 |-> 0, name |-> name, type |-> type]
OutFooter == [k |-> "out_footer", n1 |-> 0, n2 |-> 0, name |-> <<>>, type |-> <<>>]

\* err(1, ...) and errx(1, ...): the message, then exit(1).  exit flushes the
\* stdio streams still open (h is what is held at the call) and releases
\* nothing itself.
Errx(d, h) ==
    /\ pc' = "exit"
    /\ status' = 1
    /\ diag' = d
    /\ held' = h
    /\ ofile' = IF "ofp" \in h THEN ofile \o obuf ELSE ofile
    /\ obuf' = <<>>

(***************************************************************************)
(* elftool_generate                                                        *)
(***************************************************************************)
\* Lines 109-114: the two fopen calls.  fopen(output, "w") truncates OUTPUT.
GenOpen ==
    /\ run = "gen" /\ pc = "gen_open"
    /\ IF ~src_ok
         THEN Errx(<<"Could not open %s", "SOURCE">>, held)
         ELSE IF ~out_ok
                THEN Errx(<<"Could not open %s", "OUTPUT">>, held \cup {"sfp"})
                ELSE /\ held' = held \cup {"sfp", "ofp"}
                     /\ ofile' = <<>>
                     /\ pc' = "gen_parse"
                     /\ UNCHANGED <<status, diag, obuf>>
    /\ UNCHANGED <<genLocals, stdout, inputs>>

\* Lines 116-128: jparse, jupdate, fclose(sfp), jexpect of the root.
GenParse ==
    /\ run = "gen" /\ pc = "gen_parse"
    /\ IF root = NoDocument
         THEN Errx(<<"%s: JSON parse error", "SOURCE">>, held)
         ELSE IF root.d # "jobject"
                THEN Errx(ExpectDiag("jobject", root, "(root)"),
                          (held \ {"sfp"}) \cup {"root"})
                ELSE /\ held' = (held \ {"sfp"}) \cup {"root"}
                     /\ pc' = "gen_keys"
                     /\ UNCHANGED <<status, diag, obuf, ofile>>
    /\ jversion' = 0 /\ jdevices' = 0 /\ entries' = 1 /\ i' = 1
    /\ UNCHANGED <<stdout, inputs>>

\* Lines 137-140: the first element of a devices array that is no object, 0
\* when all are objects.
FirstNonObject(a) ==
    IF \E j \in 1..Len(a) : a[j].d # "jobject"
      THEN CHOOSE j \in 1..Len(a) :
               /\ a[j].d # "jobject"
               /\ \A m \in 1..(j - 1) : a[m].d = "jobject"
      ELSE 0

\* Lines 130-145: one turn of the loop over the root's keys.
GenKey ==
    /\ run = "gen" /\ pc = "gen_keys" /\ i <= Len(root.v)
    /\ LET v == root.v[i] IN
         IF v.n = "version"
           THEN IF v.d # "jint"
                  THEN Errx(ExpectDiag("jint", v, ".version"), held)
                         /\ UNCHANGED genLocals
                  ELSE /\ jversion' = i /\ i' = i + 1
                       /\ UNCHANGED <<jdevices, entries, pc, status, diag, held,
                                      obuf, ofile>>
           ELSE IF v.n = "devices"
                  THEN IF v.d # "jarray"
                         THEN Errx(ExpectDiag("jarray", v, ".devices"), held)
                                /\ UNCHANGED genLocals
                         ELSE IF FirstNonObject(v.v) # 0
                                THEN /\ Errx(ExpectDiag("jobject",
                                               v.v[FirstNonObject(v.v)],
                                               ".devices[]"), held)
                                     /\ entries' = entries + FirstNonObject(v.v) - 1
                                     /\ UNCHANGED <<jversion, jdevices, i>>
                                ELSE /\ entries' = entries + Len(v.v)
                                     /\ jdevices' = i /\ i' = i + 1
                                     /\ UNCHANGED <<jversion, pc, status, diag,
                                                    held, obuf, ofile>>
                  ELSE Errx(<<"(root): unknown key: %s", v.n>>, held)
                         /\ UNCHANGED genLocals
    /\ UNCHANGED <<stdout, inputs>>


\* RootDiag with the entry count compared one too high.
RootDiag_CountOffByOne(r, jv, jd, n) ==
    IF jv = 0 THEN <<"missing .version">>
    ELSE IF jd = 0 THEN <<"missing .devices[]">>
    ELSE IF r.v[jv].i # MFT_VERSION
      THEN <<".version: invalid version %lld, expected %d", r.v[jv].i, MFT_VERSION>>
    ELSE IF n > MFT_MAX_ENTRIES + 1
      THEN <<".devices[]: too many entries, maximum %d", MFT_MAX_ENTRIES>>
    ELSE <<>>

\* RootDiag with the version's value checked before the presence of devices.
RootDiag_VersionFirst(r, jv, jd, n) ==
    IF jv = 0 THEN <<"missing .version">>
    ELSE IF r.v[jv].i # MFT_VERSION
      THEN <<".version: invalid version %lld, expected %d", r.v[jv].i, MFT_VERSION>>
    ELSE IF jd = 0 THEN <<"missing .devices[]">>
    ELSE IF n > MFT_MAX_ENTRIES
      THEN <<".devices[]: too many entries, maximum %d", MFT_MAX_ENTRIES>>
    ELSE <<>>

\* Lines 147-156: the checks after the loop over the root's keys, <<>> when
\* all pass.
RootDiag(r, jv, jd, n) ==
    IF jv = 0 THEN <<"missing .version">>
    ELSE IF jd = 0 THEN <<"missing .devices[]">>
    ELSE IF r.v[jv].i # MFT_VERSION
      THEN <<".version: invalid version %lld, expected %d", r.v[jv].i, MFT_VERSION>>
    ELSE IF n > MFT_MAX_ENTRIES
      THEN <<".devices[]: too many entries, maximum %d", MFT_MAX_ENTRIES>>
    ELSE <<>>

\* Lines 147-158: the loop over the keys has ended; the checks, then the
\* header is printed to ofp.
GenCheck ==
    /\ run = "gen" /\ pc = "gen_keys" /\ i > Len(root.v)
    /\ IF RootDiag(root, jversion, jdevices, entries) # <<>>
         THEN Errx(RootDiag(root, jversion, jdevices, entries), held)
                /\ UNCHANGED i
         ELSE /\ obuf' = obuf \o <<OutHeader(entries, entries)>>
              /\ i' = 1
              /\ pc' = "gen_devices"
              /\ UNCHANGED <<status, diag, held, ofile>>
    /\ UNCHANGED <<jversion, jdevices, entries, stdout, inputs>>

\* Lines 162-173: the loop over a device's keys from key j on; rn and rt are
\* the positions r_name and r_type point to (0 for NULL).
RECURSIVE ScanFields(_, _, _, _)
ScanFields(f, j, rn, rt) ==
    IF j > Len(f) THEN [err |-> <<>>, r_name |-> rn, r_type |-> rt]
    ELSE IF f[j].n = "name"
      THEN IF f[j].d # "jstring"
             THEN [err |-> ExpectDiag("jstring", f[j], ".devices[...]"),
                   r_name |-> rn, r_type |-> rt]
             ELSE ScanFields(f, j + 1, j, rt)
    ELSE IF f[j].n = "type"
      THEN IF f[j].d # "jstring"
             THEN [err |-> ExpectDiag("jstring", f[j], ".devices[...]"),
                   r_name |-> rn, r_type |-> rt]
             ELSE ScanFields(f, j + 1, rn, j)
    ELSE [err |-> <<".devices[...]: unknown key: %s", f[j].n>>,
          r_name |-> rn, r_type |-> rt]

\* DeviceDiag without the check for an empty name.
DeviceDiag_NoEmptyCheck(dev) ==
    LET s == ScanFields(dev.v, 1, 0, 0) IN
    IF dev.d # "jobject" THEN ExpectDiag("jobject", dev, ".devices[]")
    ELSE IF s.err # <<>> THEN s.err
    ELSE IF s.r_name = 0 THEN <<".devices[...]: missing .name">>
    ELSE IF Len(dev.v[s.r_name].s) > MFT_NAME_MAX THEN <<".devices[...]: name too long">>
    ELSE IF \E p \in 1..Len(dev.v[s.r_name].s) : ~isalnum(dev.v[s.r_name].s[p])
      THEN <<".devices[...]: name is not alphanumeric">>
    ELSE IF s.r_type = 0 THEN <<".devices[...]: missing .type">>
    ELSE <<>>

\* Lines 160-184: what stops one turn of the loop over the devices, <<>> when
\* the device passes.
DeviceDiag(dev) ==
    LET s == ScanFields(dev.v, 1, 0, 0) IN
    IF dev.d # "jobject" THEN ExpectDiag("jobject", dev, ".devices[]")
    ELSE IF s.err # <<>> THEN s.err
    ELSE IF s.r_name = 0 THEN <<".devices[...]: missing .name">>
    ELSE IF dev.v[s.r_name].s = <<>> THEN <<".devices[...]: .name may not be empty">>
    ELSE IF Len(dev.v[s.r_name].s) > MFT_NAME_MAX THEN <<".devices[...]: name too long">>
    ELSE IF \E p \in 1..Len(dev.v[s.r_name].s) : ~isalnum(dev.v[s.r_name].s[p])
      THEN <<".devices[...]: name is not alphanumeric">>
    ELSE IF s.r_type = 0 THEN <<".devices[...]: missing .type">>
    ELSE <<>>

\* Line 185: the entry line of a device that passed.
DeviceLine(dev) ==
    LET s == ScanFields(dev.v, 1, 0, 0) IN
    OutEntry(dev.v[s.r_name].s, dev.v[s.r_type].s)

\* Lines 159-186: one turn of the loop over jdevices.
GenDevice ==
    /\ run = "gen" /\ pc = "gen_devices" /\ i <= Len(root.v[jdevices].v)
    /\ LET dev == root.v[jdevices].v[i] IN
         IF DeviceDiag(dev) # <<>>
           THEN Errx(DeviceDiag(dev), held) /\ UNCHANGED i
           ELSE /\ obuf' = obuf \o <<DeviceLine(dev)>>
                /\ i' = i + 1
                /\ UNCHANGED <<pc, status, diag, held, ofile>>
    /\ UNCHANGED <<jversion, jdevices, entries, stdout, inputs>>

\* Lines 187-191: the footer, fclose(ofp) (which writes the buffer out),
\* jdel(root), return EXIT_SUCCESS.
GenFinish ==
    /\ run = "gen" /\ pc = "gen_devices" /\ i > Len(root.v[jdevices].v)
    /\ ofile' = ofile \o obuf \o <<OutFooter>>
    /\ obuf' = <<>>
    /\ held' = held \ {"ofp", "root"}
    /\ pc' = "exit"
    /\ status' = EXIT_SUCCESS
    /\ UNCHANGED <<diag, genLocals, stdout, inputs>>

(***************************************************************************)
(* The manifest note.  A table is [version, entries, e]: e holds the entry *)
(* slots the note's size has room for, entries is the count the note       *)
(* declares.  An entry's name is a char array of MFT_NAME_MAX + 1 slots.   *)
(***************************************************************************)
NUL == "NUL"
ToArray(name) == [k \in 1..(MFT_NAME_MAX + 1) |-> IF k <= Len(name) THEN name[k] ELSE NUL]

\* CStr printing the whole array, the NULs too.
CStr_WholeArray(a) == a

\* printf's %s of a char array: the characters before the first NUL.
CStr(a) ==
    LET stop == IF \E k \in 1..Len(a) : a[k] = NUL
                  THEN CHOOSE k \in 1..Len(a) :
                           a[k] = NUL /\ \A m \in 1..(k - 1) : a[m] # NUL
                  ELSE Len(a) + 1
    IN  SubSeq(a, 1, stop - 1)

MftEntry(name, type) == [name |-> ToArray(name), type |-> type]
NoNote == [present |-> FALSE, version |-> 0, entries |-> 0, e |-> <<>>]
Note(version, n, e) == [present |-> TRUE, version |-> version, entries |-> n, e |-> e]

\* mft_type_to_string (tenders/common/mft.c).
mft_type_to_string(t) ==
    CASE t = MFT_DEV_BLOCK_BASIC -> "BLOCK_BASIC"
      [] t = MFT_DEV_NET_BASIC -> "NET_BASIC"
      [] t = MFT_RESERVED_FIRST -> "RESERVED_FIRST"
      [] OTHER -> "UNKNOWN"

\* mft_validate (tenders/common/mft.c): 0 when the table is accepted, -1 when
\* it is rejected.
mft_validate(m) ==
    IF \/ m.entries # Len(m.e)
       \/ m.version # MFT_VERSION
       \/ m.entries > MFT_MAX_ENTRIES
       \/ m.entries < 1
       \/ m.e[1].type # MFT_RESERVED_FIRST
       \/ \E k \in 2..m.entries : m.e[k].type >= MFT_RESERVED_FIRST
      THEN -1
      ELSE 0

\* The value the toolchain gives the identifier MFT_DEV_<type> of an entry
\* line (mft_abi.h).
MftDevValue(type) ==
    CASE type = T_BLOCK -> MFT_DEV_BLOCK_BASIC
      [] type = T_NET -> MFT_DEV_NET_BASIC

\* The toolchain compiling the generated source: MFT_ENTRIES slots, the
\* reserved entry, one entry per entry line, the slots left zero-initialised.
CompileTable(f) ==
    LET lines == SelectSeq(f, LAMBDA l : l.k = "out_entry")
        slot(k) == IF k = 1 THEN MftEntry(<<>>, MFT_RESERVED_FIRST)
                   ELSE IF k - 1 <= Len(lines)
                     THEN MftEntry(lines[k - 1].name, MftDevValue(lines[k - 1].type))
                   ELSE MftEntry(<<>>, 0)
    IN  Note(MFT_VERSION, f[1].n2, [k \in 1..f[1].n1 |-> slot(k)])

\* Inputs of dump: no note, or a table of up to MFT_MAX_ENTRIES + 1 slots
\* whose declared count agrees with its size or is one more.
EntryChoices ==
    { MftEntry(<<>>, MFT_RESERVED_FIRST), MftEntry(NameA, MFT_DEV_NET_BASIC),
      MftEntry(NameMax, MFT_DEV_BLOCK_BASIC), MftEntry(NameA, MFT_RESERVED_FIRST + 1) }
IsNote(m) ==
    \/ m = NoNote
    \/ \E v \in {MFT_VERSION, MFT_VERSION + 1}, d \in {0, 1} :
         \E n \in 0..(MFT_MAX_ENTRIES + 1) : \E e \in [1..n -> EntryChoices] :
             m = Note(v, n + d, e)

\* A line printed to stdout.
Line(k, num, name, type, sep) ==
    [k |-> k, num |-> num, name |-> name, type |-> type, sep |-> sep]

(***************************************************************************)
(* elftool_dump                                                            *)
(***************************************************************************)
\* Lines 196-208: open, elf_load_note.
DumpOpen ==
    /\ run = "dump" /\ pc = "dump_open"
    /\ IF ~bin_ok
         THEN Errx(<<"%s: Could not open", "BINARY">>, held)
         ELSE IF ~mft.present
                THEN /\ diag' = <<"%s: No Solo5 manifest found in executable", "BINARY">>
                     /\ held' = held
                     /\ status' = EXIT_FAILURE
                     /\ pc' = "exit"
                     /\ UNCHANGED <<obuf, ofile>>
                ELSE /\ held' = held \cup {"bin_fd", "mft"}
                     /\ pc' = "dump_validate"
                     /\ UNCHANGED <<status, diag, obuf, ofile>>
    /\ UNCHANGED <<genLocals, stdout, inputs>>

\* DumpValidate with the opening printed before mft_validate is called.
DumpValidate_PrintFirst ==
    /\ run = "dump" /\ pc = "dump_validate"
    /\ stdout' = stdout \o <<Line("open", MFT_VERSION, <<>>, "", "")>>
    /\ IF mft_validate(mft) = -1
         THEN /\ held' = held \ {"mft", "bin_fd"}
              /\ diag' = <<"%s: Manifest validation failed", "BINARY">>
              /\ status' = EXIT_FAILURE
              /\ pc' = "exit"
              /\ UNCHANGED i
         ELSE /\ i' = 0
              /\ pc' = "dump_entries"
              /\ UNCHANGED <<status, diag, held>>
    /\ UNCHANGED <<jversion, jdevices, entries, obuf, ofile, inputs>>

\* Lines 209-218: mft_validate, then the opening of the document.
DumpValidate ==
    /\ run = "dump" /\ pc = "dump_validate"
    /\ IF mft_validate(mft) = -1
         THEN /\ held' = held \ {"mft", "bin_fd"}
              /\ diag' = <<"%s: Manifest validation failed", "BINARY">>
              /\ status' = EXIT_FAILURE
              /\ pc' = "exit"
              /\ UNCHANGED <<stdout, i>>
         ELSE /\ stdout' = stdout \o <<Line("open", MFT_VERSION, <<>>, "", "")>>
              /\ i' = 0
              /\ pc' = "dump_entries"
              /\ UNCHANGED <<status, diag, held>>
    /\ UNCHANGED <<jversion, jdevices, entries, obuf, ofile, inputs>>

\* DumpEntry with a comma after every entry.
DumpEntry_AlwaysComma ==
    /\ run = "dump" /\ pc = "dump_entries" /\ i # mft.entries
    /\ LET e == mft.e[i + 1] IN
         IF e.type >= MFT_RESERVED_FIRST
           THEN UNCHANGED stdout
           ELSE stdout' = stdout \o
                    <<Line("entry", 0, CStr(e.name), mft_type_to_string(e.type), ",")>>
    /\ i' = i + 1
    /\ UNCHANGED <<pc, status, diag, held, jversion, jdevices, entries, obuf,
                   ofile, inputs>>

\* Lines 220-227: one turn of the loop over the entries (e[i] is slot i + 1).
DumpEntry ==
    /\ run = "dump" /\ pc = "dump_entries" /\ i # mft.entries
    /\ LET e == mft.e[i + 1] IN
         IF e.type >= MFT_RESERVED_FIRST
           THEN UNCHANGED stdout
           ELSE stdout' = stdout \o
                    <<Line("entry", 0, CStr(e.name), mft_type_to_string(e.type),
                           IF i = mft.entries - 1 THEN "" ELSE ",")>>
    /\ i' = i + 1
    /\ UNCHANGED <<pc, status, diag, held, jversion, jdevices, entries, obuf,
                   ofile, inputs>>

\* Lines 229-234: the closing of the document, free, close, return.
DumpFinish ==
    /\ run = "dump" /\ pc = "dump_entries" /\ i = mft.entries
    /\ stdout' = stdout \o <<Line("close", 0, <<>>, "", "")>>
    /\ held' = held \ {"mft", "bin_fd"}
    /\ status' = EXIT_SUCCESS
    /\ pc' = "exit"
    /\ UNCHANGED <<diag, genLocals, obuf, ofile, inputs>>

(***************************************************************************)
(* elftool_abi                                                             *)
(***************************************************************************)
NoAbi == [present |-> FALSE, abi_target |-> 0, abi_version |-> 0]
Abi(t, v) == [present |-> TRUE, abi_target |-> t, abi_version |-> v]

\* Inputs of abi: no note, or a note of two uint32_t fields (values up to
\* 2^30: the model checker's integers end at 2^31 - 1, and up to there the
\* uint32_t abi_target passed for the parameter int abi_target is unchanged).
AbiNotes ==
    { NoAbi } \cup
    { Abi(t, v) : t \in (0..(GENODE_ABI_TARGET + 1)) \cup {2 ^ 30},
                  v \in {0, 1, 2 ^ 30} }

\* abi_target_to_string without the case of MUEN_ABI_TARGET.
abi_target_to_string_NoMuen(abi_target) ==
    CASE abi_target = HVT_ABI_TARGET -> "hvt"
      [] abi_target = SPT_ABI_TARGET -> "spt"
      [] abi_target = VIRTIO_ABI_TARGET -> "virtio"
      [] abi_target = GENODE_ABI_TARGET -> "genode"
      [] OTHER -> "unknown"

abi_target_to_string(abi_target) ==
    CASE abi_target = HVT_ABI_TARGET -> "hvt"
      [] abi_target = SPT_ABI_TARGET -> "spt"
      [] abi_target = VIRTIO_ABI_TARGET -> "virtio"
      [] abi_target = MUEN_ABI_TARGET -> "muen"
      [] abi_target = GENODE_ABI_TARGET -> "genode"
      [] OTHER -> "unknown"

\* Lines 257-267: open, elf_load_note.
AbiOpen ==
    /\ run = "abi" /\ pc = "abi_open"
    /\ IF ~bin_ok
         THEN Errx(<<"%s: Could not open", "BINARY">>, held)
         ELSE IF ~abi1.present
                THEN Errx(<<"%s: No Solo5 ABI information found in executable",
                            "BINARY">>, held \cup {"bin_fd"})
                ELSE /\ held' = held \cup {"bin_fd", "abi1"}
                     /\ pc' = "abi_print"
                     /\ UNCHANGED <<status, diag, obuf, ofile>>
    /\ UNCHANGED <<genLocals, stdout, inputs>>

\* Lines 268-273: the two lines, free, close, return.
AbiPrint ==
    /\ run = "abi" /\ pc = "abi_print"
    /\ stdout' = stdout \o
           <<Line("ABI target: %s", 0, <<>>,
                  abi_target_to_string(abi1.abi_target), ""),
             Line("ABI version: %u", abi1.abi_version, <<>>, "", "")>>
    /\ held' = held \ {"abi1", "bin_fd"}
    /\ status' = EXIT_SUCCESS
    /\ pc' = "exit"
    /\ UNCHANGED <<diag, genLocals, obuf, ofile, inputs>>

(***************************************************************************)
(* The step between two runs: the toolchain compiles the OUTPUT of a gen   *)
(* run that succeeded and links it into BINARY, and dump runs on BINARY.   *)
(***************************************************************************)
Build ==
    /\ run = "gen" /\ pc = "exit" /\ status = EXIT_SUCCESS
    /\ run' = "dump"
    /\ pc' = "dump_open"
    /\ status' = -1
    /\ bin_ok' = TRUE
    /\ mft' = CompileTable(ofile)
    /\ built' = TRUE
    /\ UNCHANGED <<diag, held, src_ok, out_ok, root, genLocals, obuf, ofile,
                   abi1, stdout>>

(***************************************************************************)
(* main: lines 284-297 dispatch on argv[1].                                *)
(***************************************************************************)
Init ==
    /\ run \in {"gen", "dump", "abi"}
    /\ pc = (CASE run = "gen" -> "gen_open"
               [] run = "dump" -> "dump_open"
               [] run = "abi" -> "abi_open")
    /\ status = -1
    /\ diag = <<>>
    /\ held = {}
    /\ src_ok \in (IF run = "gen" THEN BOOLEAN ELSE {TRUE})
    /\ out_ok \in (IF run = "gen" THEN BOOLEAN ELSE {TRUE})
    /\ IF run = "gen" /\ src_ok /\ out_ok THEN IsDocument(root) ELSE root = NoDocument
    /\ bin_ok \in (IF run = "gen" THEN {TRUE} ELSE BOOLEAN)
    /\ IF run = "dump" /\ bin_ok THEN IsNote(mft) ELSE mft = NoNote
    /\ abi1 \in (IF run = "abi" /\ bin_ok THEN AbiNotes ELSE {NoAbi})
    /\ jversion = 0 /\ jdevices = 0 /\ entries = 1 /\ i = 0
    /\ obuf = <<>>
    /\ ofile = <<>>
    /\ stdout = <<>>
    /\ built = FALSE

Next ==
    \/ GenOpen
    \/ GenParse
    \/ GenKey
    \/ GenCheck
    \/ GenDevice
    \/ GenFinish
    \/ Build
    \/ DumpOpen
    \/ DumpValidate
    \/ DumpEntry
    \/ DumpFinish
    \/ AbiOpen
    \/ AbiPrint

Spec == Init /\ [][Next]_vars

(***************************************************************************)
(* Properties.  What a document is and which defects it has is stated here *)
(* from the document alone, not through the operators of the model above.  *)
(***************************************************************************)
GenExit == run = "gen" /\ pc = "exit"
\* gen has ended and got as far as a parsed document
GenExitDoc == GenExit /\ src_ok /\ out_ok /\ root # NoDocument

Max(S) == CHOOSE x \in S : \A y \in S : y <= x
Min(S) == CHOOSE x \in S : \A y \in S : x <= y
KeysNamed(v, n) == { k \in 1..Len(v) : v[k].n = n }
HasKey(v, n) == KeysNamed(v, n) # {}
\* the value of key n of an object with children v: the last one stored
Value(v, n) == v[Max(KeysNamed(v, n))]
UniqueKeys(v) == \A j, k \in 1..Len(v) : v[j].n = v[k].n => j = k
Range(f) == { f[k] : k \in DOMAIN f }

\* the elements of every devices array of the document that are objects
DeviceObjects(r) ==
    UNION { { r.v[k].v[j] : j \in { m \in 1..Len(r.v[k].v) : r.v[k].v[m].d = "jobject" } } :
              k \in { m \in KeysNamed(r.v, "devices") : r.v[m].d = "jarray" } }
NameStrings(r) ==
    UNION { { dev.v[k].s : k \in { m \in KeysNamed(dev.v, "name") : dev.v[m].d = "jstring" } } :
              dev \in DeviceObjects(r) }

\* The defect kinds of the rejection-completeness list, as properties of a
\* document whose root is an object.
HasDefect(r, kind) ==
    CASE kind = "missing version" -> ~HasKey(r.v, "version")
      [] kind = "wrong version" ->
            \E k \in KeysNamed(r.v, "version") :
                r.v[k].d = "jint" /\ r.v[k].i # MFT_VERSION
      [] kind = "missing devices" -> ~HasKey(r.v, "devices")
      [] kind = "too many entries" ->
            \E k \in KeysNamed(r.v, "devices") :
                r.v[k].d = "jarray" /\ 1 + Len(r.v[k].v) > MFT_MAX_ENTRIES
      [] kind = "empty name" -> <<>> \in NameStrings(r)
      [] kind = "name too long" -> \E n \in NameStrings(r) : Len(n) > MFT_NAME_MAX
      [] kind = "name not alphanumeric" ->
            \E n \in NameStrings(r) : \E c \in Range(n) : c \notin AlnumChars
      [] kind = "unknown top-level key" ->
            \E k \in 1..Len(r.v) : r.v[k].n \notin {"version", "devices"}
      [] kind = "unknown device key" ->
            \E dev \in DeviceObjects(r) :
                \E k \in 1..Len(dev.v) : dev.v[k].n \notin {"name", "type"}
DefectKinds ==
    { "missing version", "wrong version", "missing devices", "too many entries",
      "empty name", "name too long", "name not alphanumeric",
      "unknown top-level key", "unknown device key" }
Defects(r) == { kind \in DefectKinds : HasDefect(r, kind) }

\* Every other way a document can fail to be a manifest document: a value of
\* the wrong type, a key stored twice, a device without name or type.
OtherDefect(r) ==
    \/ ~UniqueKeys(r.v)
    \/ \E k \in KeysNamed(r.v, "version") : r.v[k].d # "jint"
    \/ \E k \in KeysNamed(r.v, "devices") :
           \/ r.v[k].d # "jarray"
           \/ \E j \in 1..Len(r.v[k].v) : r.v[k].v[j].d # "jobject"
    \/ \E dev \in DeviceObjects(r) :
           \/ ~UniqueKeys(dev.v)
           \/ ~HasKey(dev.v, "name") \/ ~HasKey(dev.v, "type")
           \/ \E k \in KeysNamed(dev.v, "name") \cup KeysNamed(dev.v, "type") :
                  dev.v[k].d # "jstring"

\* the diagnostic of each defect kind (the format errx is called with)
DefectMessage(kind) ==
    CASE kind = "missing version" -> "missing .version"
      [] kind = "wrong version" -> ".version: invalid version %lld, expected %d"
      [] kind = "missing devices" -> "missing .devices[]"
      [] kind = "too many entries" -> ".devices[]: too many entries, maximum %d"
      [] kind = "empty name" -> ".devices[...]: .name may not be empty"
      [] kind = "name too long" -> ".devices[...]: name too long"
      [] kind = "name not alphanumeric" -> ".devices[...]: name is not alphanumeric"
      [] kind = "unknown top-level key" -> "(root): unknown key: %s"
      [] kind = "unknown device key" -> ".devices[...]: unknown key: %s"

\* C1: on every rejection path of gen the OUTPUT file holds nothing at
\* process exit: no header, no entry line of an earlier valid device.
C1_NoPartialOutput == (GenExit /\ status # EXIT_SUCCESS) => (ofile = <<>>)

\* C2: a document with exactly one defect of the list (and otherwise a
\* manifest document) is rejected with status 1 and with the diagnostic of
\* that defect kind, and no two kinds share a diagnostic.
C2_RejectionCompleteness ==
    /\ \A j, k \in DefectKinds : (DefectMessage(j) = DefectMessage(k)) => (j = k)
    /\ (GenExitDoc /\ root.d = "jobject" /\ ~OtherDefect(root)) =>
           \A kind \in DefectKinds :
               (Defects(root) = {kind}) =>
                   /\ status = 1
                   /\ diag # <<>>
                   /\ diag[1] = DefectMessage(kind)

\* a rejected document whose one defect is an unknown key in a device that
\* has both name and type
C2_Witness ==
    /\ GenExitDoc /\ root.d = "jobject" /\ ~OtherDefect(root)
    /\ Defects(root) = {"unknown device key"}
    /\ status = 1

\* the devices of a document: the value of its key "devices"
DocDevices(r) == Value(r.v, "devices").v
EntryLines(f) == { k \in 1..Len(f) : f[k].k = "out_entry" }

\* C3: the output of an accepted document is the header, one entry line per
\* element of .devices in input order, the footer, and both counts of the
\* header are 1 + the number of entry lines, also when a key occurs twice.
C3_OutputShape ==
    (GenExit /\ status = EXIT_SUCCESS) =>
        LET devs == DocDevices(root) IN
        /\ Len(ofile) = Len(devs) + 2
        /\ ofile[1].k = "out_header"
        /\ ofile[1].n1 = 1 + Cardinality(EntryLines(ofile))
        /\ ofile[1].n2 = 1 + Cardinality(EntryLines(ofile))
        /\ \A j \in 1..Len(devs) :
               ofile[j + 1] = OutEntry(Value(devs[j].v, "name").s,
                                       Value(devs[j].v, "type").s)
        /\ ofile[Len(ofile)] = OutFooter

\* C8: at every process exit, of any of the three commands, nothing acquired
\* is still held.
C8_AllReleased == (pc = "exit") => (held = {})

\* what makes a device object fail the per-device checks
DeviceDefect(dev) ==
    \/ \E k \in 1..Len(dev.v) : dev.v[k].n \notin {"name", "type"}
    \/ \E k \in KeysNamed(dev.v, "name") \cup KeysNamed(dev.v, "type") :
           dev.v[k].d # "jstring"
    \/ ~HasKey(dev.v, "name")
    \/ ~HasKey(dev.v, "type")
    \/ LET n == Value(dev.v, "name").s IN
           n = <<>> \/ Len(n) > MFT_NAME_MAX \/ \E c \in Range(n) : c \notin AlnumChars

\* The five rules of the validation list, each as "the document violates it".
RuleViolated(r, n) ==
    CASE n = 1 -> \/ r.d # "jobject"
                  \/ \E k \in 1..Len(r.v) : r.v[k].n \notin {"version", "devices"}
      [] n = 2 -> \/ ~HasKey(r.v, "version")
                  \/ \E k \in KeysNamed(r.v, "version") :
                         r.v[k].d # "jint" \/ r.v[k].i # MFT_VERSION
      [] n = 3 -> \/ ~HasKey(r.v, "devices")
                  \/ \E k \in KeysNamed(r.v, "devices") :
                         \/ r.v[k].d # "jarray"
                         \/ \E j \in 1..Len(r.v[k].v) : r.v[k].v[j].d # "jobject"
      [] n = 4 -> \E k \in KeysNamed(r.v, "devices") :
                      r.v[k].d = "jarray" /\ 1 + Len(r.v[k].v) > MFT_MAX_ENTRIES
      [] n = 5 -> \E dev \in DeviceObjects(r) : DeviceDefect(dev)

\* the rule a diagnostic belongs to
RuleOf(d) ==
    CASE d[1] = "%s: expected %s, got %s" ->
             (CASE d[2] = "(root)" -> 1
                [] d[2] = ".version" -> 2
                [] d[2] \in {".devices", ".devices[]"} -> 3
                [] OTHER -> 5)
      [] d[1] = "(root): unknown key: %s" -> 1
      [] d[1] \in {"missing .version", ".version: invalid version %lld, expected %d"} -> 2
      [] d[1] = "missing .devices[]" -> 3
      [] d[1] = ".devices[]: too many entries, maximum %d" -> 4
      [] OTHER -> 5

\* C9 as claimed: the diagnostic of a rejected document is that of the
\* lowest-numbered rule the document violates (documents whose keys are all
\* different, so that each rule is about one value).
C9_RuleOrder ==
    (GenExitDoc /\ UniqueKeys(root.v) /\ status = 1) =>
        /\ \E n \in 1..5 : RuleViolated(root, n)
        /\ RuleOf(diag) = Min({ n \in 1..5 : RuleViolated(root, n) })

\* The order the checks are made in.  Stage 2 is the walk over the root's
\* keys in document order, which checks the type of a version and of a
\* devices value (and of its elements) and refuses any other key; the
\* presence of both keys, the version's value and the entry count (one plus
\* the elements of every devices array) come after it, the devices last.
BadKey(r, k) ==
    CASE r.v[k].n = "version" -> r.v[k].d # "jint"
      [] r.v[k].n = "devices" ->
            \/ r.v[k].d # "jarray"
            \/ \E j \in 1..Len(r.v[k].v) : r.v[k].v[j].d # "jobject"
      [] OTHER -> TRUE
RECURSIVE ElementsUpTo(_, _)
ElementsUpTo(r, k) ==
    IF k = 0 THEN 0
    ELSE ElementsUpTo(r, k - 1) + (IF r.v[k].n = "devices" THEN Len(r.v[k].v) ELSE 0)
StageViolated(r, n) ==
    CASE n = 1 -> r.d # "jobject"
      [] n = 2 -> \E k \in 1..Len(r.v) : BadKey(r, k)
      [] n = 3 -> ~HasKey(r.v, "version")
      [] n = 4 -> ~HasKey(r.v, "devices")
      [] n = 5 -> HasKey(r.v, "version") /\ Value(r.v, "version").i # MFT_VERSION
      [] n = 6 -> 1 + ElementsUpTo(r, Len(r.v)) > MFT_MAX_ENTRIES
      [] n = 7 -> HasKey(r.v, "devices") /\
                      \E j \in 1..Len(DocDevices(r)) : DeviceDefect(DocDevices(r)[j])
StageOf(d) ==
    CASE d[1] = "%s: expected %s, got %s" ->
             (CASE d[2] = "(root)" -> 1
                [] d[2] \in {".version", ".devices", ".devices[]"} -> 2
                [] OTHER -> 7)
      [] d[1] = "(root): unknown key: %s" -> 2
      [] d[1] = "missing .version" -> 3
      [] d[1] = "missing .devices[]" -> 4
      [] d[1] = ".version: invalid version %lld, expected %d" -> 5
      [] d[1] = ".devices[]: too many entries, maximum %d" -> 6
      [] OTHER -> 7
\* the place a stage 2 diagnostic names, for the key it is about
KeyPlace(v) ==
    CASE v.n = "version" -> ".version"
      [] v.n = "devices" -> IF v.d # "jarray" THEN ".devices" ELSE ".devices[]"
      [] OTHER -> v.n

\* C9 as amended: a document is rejected exactly when it violates a stage,
\* with the diagnostic of the first stage it violates, and in stage 2 with the
\* diagnostic of the first offending key in document order.
C9_CheckOrder ==
    GenExitDoc =>
        LET bad == { n \in 1..7 : StageViolated(root, n) } IN
        /\ (status = 1) <=> (bad # {})
        /\ (status = 1) =>
               /\ StageOf(diag) = Min(bad)
               /\ (Min(bad) = 2) =>
                      LET k == Min({ j \in 1..Len(root.v) : BadKey(root, j) })
                      IN  diag[2] = KeyPlace(root.v[k])

\* a document with a wrong version value and no devices, rejected for the
\* missing devices
C9_Witness ==
    /\ GenExitDoc /\ root.d = "jobject" /\ UniqueKeys(root.v)
    /\ HasKey(root.v, "version") /\ Value(root.v, "version").d = "jint"
    /\ Value(root.v, "version").i # MFT_VERSION
    /\ ~HasKey(root.v, "devices")
    /\ diag = <<"missing .devices[]">>

\* the root, .version and .devices presence rules hold of the document
TopRulesHold(r) ==
    /\ r.d = "jobject"
    /\ \A k \in 1..Len(r.v) : r.v[k].n \in {"version", "devices"}
    /\ HasKey(r.v, "version") /\ HasKey(r.v, "devices")
    /\ \A k \in KeysNamed(r.v, "version") : r.v[k].d = "jint"
    /\ Value(r.v, "version").i = MFT_VERSION
    /\ \A k \in KeysNamed(r.v, "devices") : r.v[k].d = "jarray"
TooManyMessage == ".devices[]: too many entries, maximum %d"

\* C10 as claimed: with those rules satisfied and one plus the elements of
\* .devices above the maximum, the diagnostic is "too many entries" whatever
\* the elements are.
C10_CountFirst ==
    LET covered == /\ GenExitDoc
                   /\ TopRulesHold(root)
                   /\ UniqueKeys(root.v)
                   /\ 1 + Len(DocDevices(root)) > MFT_MAX_ENTRIES
    IN  covered => (status = 1 /\ diag[1] = TooManyMessage)

\* C10 as amended: the same when every element of every devices array is an
\* object, whatever is inside the objects.
C10_CountBeforeDeviceObjects ==
    LET covered == /\ GenExitDoc
                   /\ TopRulesHold(root)
                   /\ \A k \in KeysNamed(root.v, "devices") :
                          \A j \in 1..Len(root.v[k].v) : root.v[k].v[j].d = "jobject"
                   /\ 1 + Len(DocDevices(root)) > MFT_MAX_ENTRIES
    IN  covered => (status = 1 /\ diag[1] = TooManyMessage)

\* too many device objects, one of them defective, rejected for the count
C10_Witness ==
    /\ GenExitDoc /\ TopRulesHold(root)
    /\ \A j \in 1..Len(DocDevices(root)) : DocDevices(root)[j].d = "jobject"
    /\ 1 + Len(DocDevices(root)) > MFT_MAX_ENTRIES
    /\ \E j \in 1..Len(DocDevices(root)) : DeviceDefect(DocDevices(root)[j])
    /\ diag[1] = TooManyMessage

(***************************************************************************)
(* The round trip and the two inspectors.                                  *)
(***************************************************************************)
KnownTypes == {T_BLOCK, T_NET}
\* a valid manifest document: version and devices, each once, every device a
\* name and a type of a known kind, nothing else, nothing defective
ValidManifest(r) ==
    /\ r.d = "jobject"
    /\ ~OtherDefect(r)
    /\ Defects(r) = {}
    /\ \A dev \in DeviceObjects(r) : Value(dev.v, "type").s \in KnownTypes
NoDuplicateNames(r) ==
    \A j, k \in 1..Len(DocDevices(r)) :
        (Value(DocDevices(r)[j].v, "name").s = Value(DocDevices(r)[k].v, "name").s)
            => (j = k)
DumpExit == run = "dump" /\ pc = "exit" /\ bin_ok

\* C4: the document dump renders from the table built from gen's output of a
\* valid manifest document D without duplicate names has D's version and
\* D's (name, type) pairs in D's order.
C4_RoundTrip ==
    (DumpExit /\ built /\ ValidManifest(root) /\ NoDuplicateNames(root)) =>
        LET devs == DocDevices(root) IN
        /\ status = EXIT_SUCCESS
        /\ Len(stdout) = Len(devs) + 2
        /\ stdout[1].k = "open"
        /\ stdout[1].num = Value(root.v, "version").i
        /\ \A j \in 1..Len(devs) :
               /\ stdout[j + 1].k = "entry"
               /\ stdout[j + 1].name = Value(devs[j].v, "name").s
               /\ <<stdout[j + 1].type>> = Value(devs[j].v, "type").s
        /\ stdout[Len(stdout)].k = "close"

\* the round trip of a document of two devices of different kinds, the one
\* named with MFT_NAME_MAX characters
C4_Witness ==
    /\ DumpExit /\ built /\ ValidManifest(root) /\ NoDuplicateNames(root)
    /\ Len(DocDevices(root)) = 2
    /\ Len(stdout) = 4
    /\ stdout[2].type # stdout[3].type
    /\ \E j \in 2..3 : Len(stdout[j].name) = MFT_NAME_MAX

NoManifestMessage == "%s: No Solo5 manifest found in executable"
ValidationFailedMessage == "%s: Manifest validation failed"

\* C5: dump of a binary without manifest note fails with the one message, of
\* a binary whose table the validator rejects with the other, and prints
\* nothing to stdout in either case.
C5_DumpFailures ==
    /\ NoManifestMessage # ValidationFailedMessage
    /\ (DumpExit /\ ~mft.present) =>
           /\ status = EXIT_FAILURE
           /\ diag[1] = NoManifestMessage
           /\ stdout = <<>>
    /\ (DumpExit /\ mft.present /\ mft_validate(mft) = -1) =>
           /\ status = EXIT_FAILURE
           /\ diag[1] = ValidationFailedMessage
           /\ stdout = <<>>

\* a table rejected although its size, version and first entry are right
C5_Witness ==
    /\ DumpExit /\ mft.present /\ mft_validate(mft) = -1
    /\ mft.version = MFT_VERSION /\ mft.entries = Len(mft.e) /\ mft.entries > 1
    /\ mft.e[1].type = MFT_RESERVED_FIRST
    /\ status = EXIT_FAILURE

\* an entry's name: the characters of its array up to the first NUL
EntryName(a) ==
    LET n == CHOOSE n \in 0..Len(a) :
                 /\ \A k \in 1..n : a[k] # NUL
                 /\ n = Len(a) \/ a[n + 1] = NUL
    IN  [k \in 1..n |-> a[k]]
KindName(t) ==
    CASE t = MFT_DEV_BLOCK_BASIC -> "BLOCK_BASIC"
      [] t = MFT_DEV_NET_BASIC -> "NET_BASIC"
RenderedSlots(m) == { k \in 1..Len(m.e) : m.e[k].type < MFT_RESERVED_FIRST }
\* the j-th smallest element of a set of numbers
RECURSIVE Nth(_, _)
Nth(S, j) == IF j = 1 THEN Min(S) ELSE Nth(S \ {Min(S)}, j - 1)

\* C6: dump of a validated table prints the opening, then exactly the entries
\* whose type is below MFT_RESERVED_FIRST, in table order, each with its name
\* and the name of its device kind and a comma after every one but the last,
\* then the closing.
C6_RenderedDevices ==
    (DumpExit /\ status = EXIT_SUCCESS) =>
        LET slots == RenderedSlots(mft)
            n == Cardinality(slots)
        IN  /\ Len(stdout) = n + 2
            /\ stdout[1].k = "open" /\ stdout[1].num = MFT_VERSION
            /\ \A j \in 1..n :
                   LET e == mft.e[Nth(slots, j)] IN
                   /\ stdout[j + 1].k = "entry"
                   /\ stdout[j + 1].name = EntryName(e.name)
                   /\ (e.type \in {MFT_DEV_BLOCK_BASIC, MFT_DEV_NET_BASIC})
                          => (stdout[j + 1].type = KindName(e.type))
                   /\ stdout[j + 1].sep = (IF j = n THEN "" ELSE ",")
            /\ stdout[n + 2].k = "close"

\* a validated table with as many devices as fit, not built by gen
C6_Witness ==
    /\ DumpExit /\ status = EXIT_SUCCESS /\ ~built
    /\ mft.entries = MFT_MAX_ENTRIES
    /\ Len(stdout) = MFT_MAX_ENTRIES + 1
    /\ stdout[MFT_MAX_ENTRIES].sep = ""
    /\ stdout[2].sep = ","

AbiExit == run = "abi" /\ pc = "exit" /\ bin_ok
TargetName(t) ==
    CASE t = HVT_ABI_TARGET -> "hvt"
      [] t = SPT_ABI_TARGET -> "spt"
      [] t = VIRTIO_ABI_TARGET -> "virtio"
      [] t = MUEN_ABI_TARGET -> "muen"
      [] t = GENODE_ABI_TARGET -> "genode"
KnownTargets ==
    {HVT_ABI_TARGET, SPT_ABI_TARGET, VIRTIO_ABI_TARGET, MUEN_ABI_TARGET, GENODE_ABI_TARGET}

\* C7: abi without ABI note ends with a message, a status other than 0 and
\* nothing printed; with the note it ends with status 0 whatever abi_target
\* is, having printed the target's name ("unknown" for a value that is none of
\* the five) and then abi_version.
C7_AbiReport ==
    /\ (AbiExit /\ ~abi1.present) =>
           /\ status # EXIT_SUCCESS
           /\ diag # <<>>
           /\ stdout = <<>>
    /\ (AbiExit /\ abi1.present) =>
           /\ status = EXIT_SUCCESS
           /\ Len(stdout) = 2
           /\ stdout[1].k = "ABI target: %s"
           /\ stdout[1].type = (IF abi1.abi_target \in KnownTargets
                                  THEN TargetName(abi1.abi_target) ELSE "unknown")
           /\ stdout[2].k = "ABI version: %u"
           /\ stdout[2].num = abi1.abi_version

\* a note with a target that is none of the five
C7_Witness ==
    /\ AbiExit /\ abi1.present /\ abi1.abi_target \notin KnownTargets
    /\ abi1.abi_version > 1
    /\ status = EXIT_SUCCESS

====
